---- MODULE Spec2Model ----
(***************************************************************************)
(* The consultation meeting screen (VideoMeeting) and the login screen      *)
(* (Login) of frontend-dupss/src/components/auth/Login.jsx as state         *)
(* machines over one browser storage.                                       *)
(*                                                                         *)
(* One step of the model is one macrotask of the browser's event loop: a   *)
(* user event, a timer callback, or the arrival of a network response      *)
(* together with everything the awaiting handler does until its next real  *)
(* network await.  Awaits on promises that are already settled (a status   *)
(* read that returns without a request) continue in the same step.         *)
(***************************************************************************)
EXTENDS Integers, Sequences, FiniteSets, TLC

\* ------------------------------------------------------------------ bounds
MaxTasks == 2       \* handler invocations that may be awaiting at once
MaxStreams == 1     \* media streams JoiningScreen may hand over in one run
MaxToken == 2       \* access tokens are 1..MaxToken; 0 is "no token stored"
MaxTimers == 2      \* setTimeout callbacks that may be pending at once
MaxLogins == 2      \* login handler invocations that may be awaiting at once
MaxCalls == 3       \* calls of getParticipantId that are counted
MaxUuid == 3        \* values crypto.randomUUID() may give

\* ------------------------------------------------------------- value sets
UNKNOWN == "UNKNOWN"
\* data.status as the appointment service may report it; "confirmed" stands
\* for a status string that is not in canonical upper case.
StatusValues == {"CONFIRMED", "ON_GOING", "COMPLETED", "CANCELLED", "confirmed"}
\* What the GET of the appointment can come back as: a thrown fetch, a 401,
\* another non-OK response, an OK body without a status, or an OK body
\* carrying a status.
GetResponses == {"netErr", "401", "notOk", "badData"} \cup StatusValues
\* What POST /auth/refresh-token can come back as.
RefreshResponses == {"ok", "notOk", "netErr", "noToken"}
\* Participant names as sequences of characters.
NameInputs == {<<>>, <<" ">>, <<"A">>}
Notes == {"", "note"}
\* getUserData(): nothing stored, a profile without id, a plain user, a
\* consultant; id 0 is a missing id.
NoUser == [present |-> FALSE, id |-> 0, consultant |-> FALSE]
UserDatas ==
  { NoUser,
    [present |-> TRUE, id |-> 0, consultant |-> TRUE],
    [present |-> TRUE, id |-> 1, consultant |-> FALSE],
    [present |-> TRUE, id |-> 1, consultant |-> TRUE] }

VARIABLES
  \* React state of VideoMeeting
  participantName, isMeetingStarted, loading, error, isConsultant,
  openStartDialog, openEndDialog, consultantNote,
  customAudioStream, customVideoStream,
  \* refs, router, timers, and the streams held by the handleOnMeetingLeave
  \* that the memoised handleShowEndDialog closed over
  meetingRef, mounted, navigated, timers, staleStreams,
  \* durable storage and route
  userData, accessToken, refreshToken, videoCallId,
  \* awaiting handler invocations
  tasks,
  \* external effects observed: calls of leave(), stops per stream, the alert
  \* raised by the step just taken
  leaveCalls, trackStops, alert,
  \* the status read that ended in the step just taken; kept only where
  \* traced holds (the specification of the status read)
  traced, readDone,
  \* React state of Login, location.state.returnUrl, window.location.href
  username, password, isLoading, errors, returnUrl, href,
  \* sessionStorage and localStorage keys written by Login
  redirectAfterLogin, loginSuccess, pendingSurveySubmission,
  surveySubmissionResult,
  \* awaiting login handlers, and what the step just taken did, in order
  logins, effects,
  \* getParticipantId: localStorage userProfile, meetingId, sessionStorage
  \* tempParticipantId, the value returned last and the calls so far
  userProfile, meetingId, tempParticipantId, participantId, pidCalls,
  \* the values crypto.randomUUID() has given so far
  issued

vars ==
  << participantName, isMeetingStarted, loading, error, isConsultant,
     openStartDialog, openEndDialog, consultantNote,
     customAudioStream, customVideoStream,
     meetingRef, mounted, navigated, timers, staleStreams,
     userData, accessToken, refreshToken, videoCallId,
     tasks, leaveCalls, trackStops, alert, traced, readDone,
     username, password, isLoading, errors, returnUrl, href,
     redirectAfterLogin, loginSuccess, pendingSurveySubmission,
     surveySubmissionResult, logins, effects,
     userProfile, meetingId, tempParticipantId, participantId, pidCalls,
     issued >>

\* what the meeting screen never touches: the login screen's state and keys
loginVars ==
  << username, password, isLoading, errors, returnUrl, href,
     redirectAfterLogin, loginSuccess, pendingSurveySubmission,
     surveySubmissionResult, logins, effects >>
\* what getParticipantId reads and writes
pidVars ==
  << userProfile, meetingId, tempParticipantId, participantId, pidCalls,
     issued >>
\* what the login screen never touches
meetingVars ==
  << participantName, isMeetingStarted, loading, error, isConsultant,
     openStartDialog, openEndDialog, consultantNote,
     customAudioStream, customVideoStream,
     meetingRef, mounted, navigated, timers, staleStreams,
     userData, videoCallId, tasks, leaveCalls, trackStops, alert,
     traced, readDone >>

\* ------------------------------------------------------------ the world
\* The current values as one record, so that a handler is an operator from
\* world to world and handlers compose the way the code calls them.
W ==
  [ participantName |-> participantName, isMeetingStarted |-> isMeetingStarted,
    loading |-> loading, error |-> error, isConsultant |-> isConsultant,
    openStartDialog |-> openStartDialog, openEndDialog |-> openEndDialog,
    consultantNote |-> consultantNote,
    customAudioStream |-> customAudioStream,
    customVideoStream |-> customVideoStream,
    meetingRef |-> meetingRef, mounted |-> mounted, navigated |-> navigated,
    timers |-> timers, staleStreams |-> staleStreams, accessToken |-> accessToken, tasks |-> tasks,
    leaveCalls |-> leaveCalls, trackStops |-> trackStops,
    alert |-> alert, readDone |-> readDone ]

\* React drops state updates of an unmounted component: after the unmount the
\* state keeps its last value, while refs, storage, timers and pending
\* promises live on.
Become(w) ==
  /\ participantName' = IF mounted THEN w.participantName ELSE participantName
  /\ isMeetingStarted' = IF mounted THEN w.isMeetingStarted ELSE isMeetingStarted
  /\ loading' = IF mounted THEN w.loading ELSE loading
  /\ error' = IF mounted THEN w.error ELSE error
  /\ isConsultant' = IF mounted THEN w.isConsultant ELSE isConsultant
  /\ openStartDialog' = IF mounted THEN w.openStartDialog ELSE openStartDialog
  /\ openEndDialog' = IF mounted THEN w.openEndDialog ELSE openEndDialog
  /\ consultantNote' = IF mounted THEN w.consultantNote ELSE consultantNote
  /\ customAudioStream' = IF mounted THEN w.customAudioStream ELSE customAudioStream
  /\ customVideoStream' = IF mounted THEN w.customVideoStream ELSE customVideoStream
  /\ staleStreams' = IF mounted THEN w.staleStreams ELSE staleStreams
  /\ meetingRef' = w.meetingRef
  /\ mounted' = w.mounted
  /\ navigated' = w.navigated
  /\ timers' = w.timers
  /\ accessToken' = w.accessToken
  /\ tasks' = w.tasks
  /\ leaveCalls' = w.leaveCalls
  /\ trackStops' = w.trackStops
  /\ alert' = w.alert
  /\ readDone' = IF traced THEN w.readDone ELSE readDone
  /\ UNCHANGED << userData, refreshToken, videoCallId, traced >>
  /\ UNCHANGED << loginVars, pidVars >>

NoRead == [resp |-> "-", isRetry |-> FALSE, refresh |-> "-", result |-> "-"]
\* alert and readDone describe the step just taken; every step starts from
\* the world with both cleared.
W0 == [W EXCEPT !.alert = "none", !.readDone = NoRead]

\* ----------------------------------------------------------------- tasks
IdleTask ==
  [ kind |-> "idle", pc |-> "-", isRetry |-> FALSE, gets |-> 0,
    refreshes |-> 0, tok |-> 0, seen |-> "-", uid |-> 0, note |-> "",
    sent |-> "", aud |-> 0, vid |-> 0 ]
TaskIds == 1..MaxTasks
Busy(w) == {t \in TaskIds : w.tasks[t].kind # "idle"}
HasFree(w) == Busy(w) # TaskIds
FreeSlot(w) == CHOOSE t \in TaskIds \ Busy(w) : \A u \in TaskIds \ Busy(w) : t <= u
Spawn(w, task) == [w EXCEPT !.tasks[FreeSlot(w)] = task]
Finish(w, t) == [w EXCEPT !.tasks[t] = IdleTask]

\* --------------------------------------------------------- pure helpers
IsSpace(ch) == ch = " "
RECURSIVE TrimLeft(_)
TrimLeft(s) == IF s # <<>> /\ IsSpace(Head(s)) THEN TrimLeft(Tail(s)) ELSE s
RECURSIVE TrimRight(_)
TrimRight(s) ==
  IF s # <<>> /\ IsSpace(s[Len(s)]) THEN TrimRight(SubSeq(s, 1, Len(s) - 1)) ELSE s
\* String.prototype.trim
Trim(s) == TrimRight(TrimLeft(s))

\* String(status).toUpperCase() over StatusValues and UNKNOWN
ToUpperCase(s) == IF s = "confirmed" THEN "CONFIRMED" ELSE s


\* ------------------------------------------------- the status read, pure
\* checkAppointmentStatus lines 817-820, handleConfirm*Meeting lines 897-900
\* and 973-976: !userData || !userData.id
HasUserId(ud) == ud.present /\ ud.id # 0

\* (mutant) a retry whose answer is not looked at
fetchOutcome_RetryDiscarded(resp, isRetry) ==
  IF isRetry \/ resp \in {"netErr", "notOk", "badData"} THEN UNKNOWN
  ELSE IF resp = "401" THEN "REFRESH"
  ELSE resp
\* fetchAppointmentWithTokenRefresh lines 844-888: what one response of the
\* GET leads to: a status, UNKNOWN, or "REFRESH" (go and refresh the token).
fetchOutcome(resp, isRetry) ==
  IF resp = "netErr" THEN UNKNOWN
  ELSE IF resp = "401" /\ ~isRetry THEN "REFRESH"
  ELSE IF resp \in {"401", "notOk"} THEN UNKNOWN
  ELSE IF resp = "badData" THEN UNKNOWN
  ELSE resp

\* refreshAccessToken lines 795-807: the new token is returned, or it throws
refreshOutcome(rresp) == IF rresp = "ok" THEN "TOKEN" ELSE "THROW"

\* fetchAppointmentWithTokenRefresh lines 859-867: a refresh that throws is
\* caught and answered with UNKNOWN
refreshCaught(x) == IF x = "THROW" THEN UNKNOWN ELSE x

\* (mutant) checkAppointmentStatus without its catch
checkAppointmentStatus_Rethrows(x) == x
\* checkAppointmentStatus lines 816-830: whatever is thrown inside is caught
\* and answered with {status: "UNKNOWN"}
checkAppointmentStatus(x) == IF x = "THROW" THEN UNKNOWN ELSE x

\* ------------------------------------------------------ leaving, cleanup
StopTracks(w, stream) ==
  IF stream = 0 THEN w ELSE [w EXCEPT !.trackStops[stream] = @ + 1]

\* meetingRef.current.leave() behind its guard, lines 618/627, 1002-1004,
\* 1020-1022
LeaveIfJoined(w) ==
  IF w.meetingRef # "null" THEN [w EXCEPT !.leaveCalls = @ + 1] ELSE w

\* handleOnMeetingLeave as created in a render whose streams were aud, vid
handleOnMeetingLeave(w, aud, vid) ==
  LET w1 == LeaveIfJoined(w)
      w2 == StopTracks(StopTracks(w1, aud), vid)
  IN [w2 EXCEPT !.meetingRef = "null", !.isMeetingStarted = FALSE,
                !.navigated = TRUE]

\* the cleanup returned by the effect of lines 615-641, created in a render
\* whose streams were aud, vid
effectCleanup(w, aud, vid) == StopTracks(StopTracks(LeaveIfJoined(w), aud), vid)

\* ------------------------------------------- what follows a status read
\* (mutant) the prompt for everything that is not yet running
ShowsStartDialog_UnlessOnGoing(status) == status # "ON_GOING"
\* onClickStartMeeting line 737
ShowsStartDialog(status) == ToUpperCase(status) = "CONFIRMED"
\* (mutant) the confirm handler comparing the way onClickStartMeeting does
ShouldStart_Normalised(status) == ToUpperCase(status) = "CONFIRMED"
\* handleConfirmStartMeeting line 913
ShouldStart(status) == status = "CONFIRMED"
\* handleConfirmEndMeeting line 988
ShouldEnd(status) == status = "ON_GOING"
\* (mutant) leaving directly only when the appointment is over
LeavesDirectly_OnlyCompleted(status) == status = "COMPLETED"
\* handleShowEndDialog line 1080
LeavesDirectly(status) == status # "ON_GOING"

\* a task keeps its slot t, or takes one when it had none yet (t = 0)
Place(w, t, task) == IF t = 0 THEN Spawn(w, task) ELSE [w EXCEPT !.tasks[t] = task]
Done(w, t) == IF t = 0 THEN w ELSE Finish(w, t)

\* onClickStartMeeting lines 721-763, r what checkAppointmentStatus gave
onClickAfterStatus(w, t, r) ==
  IF r = "THROW" \/ ShowsStartDialog(r)
  THEN [Done(w, t) EXCEPT !.loading = FALSE, !.timers = @ + 1]
  ELSE [Done(w, t) EXCEPT !.isMeetingStarted = TRUE, !.error = "",
                          !.loading = FALSE]

\* handleConfirmStartMeeting lines 903-934
confirmStartAfterStatus(w, t, task, r) ==
  LET status == IF r = "THROW" THEN UNKNOWN ELSE r
  IN IF ShouldStart(status)
     THEN Place(w, t, [task EXCEPT !.pc = "putStart", !.seen = status])
     ELSE [Done(w, t) EXCEPT !.isMeetingStarted = TRUE, !.error = ""]

\* handleShowEndDialog lines 1079-1090
showEndAfterStatus(w, t, r) ==
  IF r = "THROW" THEN [Done(w, t) EXCEPT !.alert = "statusErr"]
  ELSE IF LeavesDirectly(r)
  THEN handleOnMeetingLeave([Done(w, t) EXCEPT !.openEndDialog = FALSE],
                            w.staleStreams.aud, w.staleStreams.vid)
  ELSE Done(w, t)

\* handleConfirmEndMeeting lines 1001-1007
confirmEndLeave(w, task) == handleOnMeetingLeave(LeaveIfJoined(w), task.aud, task.vid)

\* (mutant) a PUT that forgets the note
EndPayload_Empty(task) == ""
\* handleConfirmEndMeeting lines 994-996: the body of the PUT
EndPayload(task) == task.note

\* handleConfirmEndMeeting lines 979-1007
confirmEndAfterStatus(w, t, task, r) ==
  LET status == IF r = "THROW" THEN UNKNOWN ELSE r
  IN IF ShouldEnd(status)
     THEN Place(w, t, [task EXCEPT !.pc = "putEnd", !.seen = status,
                                   !.sent = EndPayload(task)])
     ELSE confirmEndLeave(Done(w, t), task)

\* the read is over with result r: note it (resp the last response of the GET
\* and refresh that of the refresh, "-" where none was made) and go on in the
\* handler that awaited it
Deliver(w, t, task, resp, refresh, r) ==
  LET w1 == [w EXCEPT !.readDone =
               [resp |-> resp, isRetry |-> task.isRetry, refresh |-> refresh,
                result |-> r]]
  IN CASE task.kind = "onClickStart" -> onClickAfterStatus(w1, t, r)
       [] task.kind = "confirmStart" -> confirmStartAfterStatus(w1, t, task, r)
       [] task.kind = "showEnd" -> showEndAfterStatus(w1, t, r)
       [] task.kind = "confirmEnd" -> confirmEndAfterStatus(w1, t, task, r)

\* (mutant) the GET sent whether or not a token is stored
fetchBegin_NoTokenCheck(w, t, task) ==
  Place(w, t, [task EXCEPT !.pc = "get", !.gets = @ + 1,
                           !.tok = w.accessToken])
\* fetchAppointmentWithTokenRefresh lines 836-852: no token, no request
fetchBegin(w, t, task) ==
  IF w.accessToken = 0
  THEN Deliver(w, t, task, "-", IF task.isRetry THEN "ok" ELSE "-",
               checkAppointmentStatus(UNKNOWN))
  ELSE Place(w, t, [task EXCEPT !.pc = "get", !.gets = @ + 1,
                                !.tok = w.accessToken])

\* checkAppointmentStatus as called by a handler (task describes the caller)
StartRead(w, task) ==
  IF ~HasUserId(userData)
  THEN Deliver(w, 0, task, "-", "-", checkAppointmentStatus("THROW"))
  ELSE fetchBegin(w, 0, task)

\* refreshAccessToken lines 780-793 as called from line 861
refreshBegin(w, t, task) ==
  IF ~refreshToken
  THEN Deliver(w, t, task, "401", "noRefreshToken",
               checkAppointmentStatus(refreshCaught("THROW")))
  ELSE [w EXCEPT !.tasks[t] = [task EXCEPT !.pc = "refresh", !.refreshes = @ + 1]]


\* ------------------------------------------------------------ what shows
\* the render of lines 1098-1157
SpinnerVisible == mounted /\ loading /\ ~isMeetingStarted
ErrorVisible == mounted /\ ~SpinnerVisible /\ error # ""
MeetingVisible == mounted /\ ~SpinnerVisible /\ error = "" /\ isMeetingStarted
JoiningVisible == mounted /\ ~SpinnerVisible /\ error = "" /\ ~isMeetingStarted
\* the dialogs are modal; the end dialog lies above the start dialog
EndDialogActive == mounted /\ ~navigated /\ openEndDialog
StartDialogActive == mounted /\ ~navigated /\ openStartDialog /\ ~openEndDialog
PageActive == mounted /\ ~navigated /\ ~openStartDialog /\ ~openEndDialog

\* navigate('/') replaces the route: React commits that unmount before the
\* browser hands over a further response or timer
RouteSettled == ~(mounted /\ navigated)

TaskAt(t, kind, pc) == RouteSettled /\ tasks[t].kind = kind /\ tasks[t].pc = pc
NewTask(kind) == [IdleTask EXCEPT !.kind = kind, !.uid = userData.id]

\* --------------------------------------------- the other screen, at rest
IdleLogin == [kind |-> "idle", pc |-> "-", username |-> <<>>, password |-> <<>>]
LoginIds == 1..MaxLogins
NoErrors == [username |-> "", password |-> ""]

\* the login screen as mounted, nothing typed, nothing stored
LoginAtRest ==
  /\ username = <<>> /\ password = <<>>
  /\ isLoading = FALSE /\ errors = NoErrors
  /\ href = ""
  /\ loginSuccess = FALSE
  /\ surveySubmissionResult = "none"
  /\ logins = [t \in LoginIds |-> IdleLogin]
  /\ effects = <<>>

NoLogin ==
  /\ LoginAtRest
  /\ returnUrl = "" /\ redirectAfterLogin = ""
  /\ pendingSurveySubmission = "none"

NoProfile == [stored |-> FALSE, parses |-> FALSE, id |-> 0, userId |-> 0, email |-> 0]

NoPid ==
  /\ userProfile = NoProfile /\ meetingId = 0
  /\ tempParticipantId = 0 /\ participantId = <<>> /\ pidCalls = 0
  /\ issued = {}

\* ------------------------------------------------------------------ Init
InitBase ==
  /\ participantName = <<>>
  /\ isMeetingStarted = FALSE
  /\ loading = TRUE
  /\ error = ""
  /\ isConsultant = FALSE
  /\ openStartDialog = FALSE
  /\ openEndDialog = FALSE
  /\ consultantNote = ""
  /\ customAudioStream = 0
  /\ customVideoStream = 0
  /\ meetingRef = "null"
  /\ mounted = TRUE
  /\ navigated = FALSE
  /\ timers = 0
  /\ staleStreams = [aud |-> 0, vid |-> 0]
  /\ userData \in UserDatas
  /\ accessToken \in {0, 1}
  /\ refreshToken \in BOOLEAN
  /\ videoCallId \in BOOLEAN
  /\ tasks = [t \in TaskIds |->
               IF t = 1 THEN [IdleTask EXCEPT !.kind = "init", !.pc = "getToken"]
               ELSE IdleTask]
  /\ leaveCalls = 0
  /\ trackStops = [i \in 1..MaxStreams |-> 0]
  /\ alert = "none"
  /\ readDone = NoRead

Init == InitBase /\ traced = FALSE /\ NoLogin /\ NoPid

\* ------------------------------------------------- the init effect, 643-705
\* lines 675-696
initValidate(w, t) ==
  IF videoCallId THEN [w EXCEPT !.tasks[t].pc = "validate"]
  ELSE [Finish(w, t) EXCEPT !.error = "noMeetingId", !.loading = FALSE]

\* lines 650-673; the render that follows a change of isConsultant is the
\* one whose handleOnMeetingLeave handleShowEndDialog keeps (line 1094)
initAfterToken(w, t) ==
  LET w1 == IF userData.present /\ userData.consultant
            THEN [w EXCEPT !.isConsultant = TRUE,
                           !.staleStreams = [aud |-> w.customAudioStream,
                                             vid |-> w.customVideoStream]]
            ELSE w
  IN IF userData.present /\ w.accessToken # 0
     THEN [w1 EXCEPT !.tasks[t].pc = "me"]
     ELSE initValidate(w1, t)

GetTokenResponds(t, ok) ==
  /\ TaskAt(t, "init", "getToken")
  /\ Become(IF ok THEN initAfterToken(W0, t)
            ELSE [Finish(W0, t) EXCEPT !.error = "noServer", !.loading = FALSE])

MeResponds(t, r) ==
  /\ TaskAt(t, "init", "me")
  /\ Become(initValidate(IF r = "fullName"
                         THEN [W0 EXCEPT !.participantName = <<"A">>]
                         ELSE W0, t))

ValidateResponds(t, r) ==
  /\ TaskAt(t, "init", "validate")
  /\ Become([Finish(W0, t) EXCEPT
               !.error = CASE r = "err" -> "invalidMeeting"
                           [] r = "throw" -> "noServer"
                           [] OTHER -> @,
               !.loading = FALSE])

\* ------------------------------------------------------- JoiningScreen
SetParticipantName(name) ==
  /\ JoiningVisible /\ PageActive
  /\ name # participantName
  /\ Become([W0 EXCEPT !.participantName = name])

FreshStream == 1 + (IF customAudioStream > customVideoStream
                    THEN customAudioStream ELSE customVideoStream)

\* a new stream re-runs the effect of lines 615-641: the cleanup of the
\* previous render runs first
SetCustomAudioStream ==
  /\ JoiningVisible /\ ~navigated
  /\ FreshStream <= MaxStreams
  /\ Become([effectCleanup(W0, customAudioStream, customVideoStream)
               EXCEPT !.customAudioStream = FreshStream])

SetCustomVideoStream ==
  /\ JoiningVisible /\ ~navigated
  /\ FreshStream <= MaxStreams
  /\ Become([effectCleanup(W0, customAudioStream, customVideoStream)
               EXCEPT !.customVideoStream = FreshStream])

\* (mutant) the name tested without trim()
onClickStartMeeting_UntrimmedName(w) ==
  IF w.participantName = <<>>
  THEN [w EXCEPT !.error = "blankName"]
  ELSE IF w.isConsultant
  THEN StartRead([w EXCEPT !.loading = TRUE], NewTask("onClickStart"))
  ELSE [w EXCEPT !.isMeetingStarted = TRUE, !.error = "", !.loading = FALSE]
\* (mutant) the status read made for every user
onClickStartMeeting_ReadsForAll(w) ==
  IF Trim(w.participantName) = <<>>
  THEN [w EXCEPT !.error = "blankName"]
  ELSE StartRead([w EXCEPT !.loading = TRUE], NewTask("onClickStart"))
\* onClickStartMeeting, lines 707-775
onClickStartMeeting(w) ==
  IF Trim(w.participantName) = <<>>
  THEN [w EXCEPT !.error = "blankName"]
  ELSE IF w.isConsultant
  THEN StartRead([w EXCEPT !.loading = TRUE], NewTask("onClickStart"))
  ELSE [w EXCEPT !.isMeetingStarted = TRUE, !.error = "", !.loading = FALSE]

OnClickStartMeeting ==
  /\ JoiningVisible /\ PageActive
  /\ HasFree(W)
  /\ timers + Cardinality({t \in TaskIds : tasks[t].kind = "onClickStart"}) < MaxTimers
  /\ Become(onClickStartMeeting(W0))


\* --------------------------------------- the status read on the network
\* (mutant) the refreshed token returned but not written to storage
StoreToken_NotWritten(w, token) == w
\* localStorage.setItem('accessToken', data.accessToken), line 803
StoreToken(w, token) == [w EXCEPT !.accessToken = token]

\* the GET of line 846 comes back
appointmentGetResponds(w, t, resp) ==
  LET task == w.tasks[t]
      o == fetchOutcome(resp, task.isRetry)
  IN IF o = "REFRESH" THEN refreshBegin(w, t, task)
     ELSE Deliver(w, t, task, resp, IF task.isRetry THEN "ok" ELSE "-",
                  checkAppointmentStatus(o))

AppointmentGetResponds(t, resp) ==
  /\ RouteSettled
  /\ tasks[t].pc = "get"
  /\ Become(appointmentGetResponds(W0, t, resp))

\* the POST of line 787 comes back; on success the retry of line 863 follows
refreshResponds(w, t, rresp) ==
  LET task == w.tasks[t]
      o == refreshOutcome(rresp)
  IN IF o = "TOKEN"
     THEN fetchBegin(StoreToken(w, w.accessToken + 1), t,
                     [task EXCEPT !.isRetry = TRUE])
     ELSE Deliver(w, t, task, "401", rresp,
                  checkAppointmentStatus(refreshCaught(o)))

RefreshResponds(t, rresp) ==
  /\ RouteSettled
  /\ tasks[t].pc = "refresh"
  /\ rresp = "ok" => accessToken < MaxToken
  /\ Become(refreshResponds(W0, t, rresp))

\* ------------------------------------------------------ the start dialog
\* the setTimeout callbacks of lines 742-744 and 759-761
StartDialogTimer ==
  /\ mounted /\ ~navigated
  /\ timers > 0
  /\ Become([W0 EXCEPT !.timers = @ - 1, !.openStartDialog = TRUE])

\* lines 1162 and 1174
CloseStartDialog ==
  /\ StartDialogActive
  /\ Become([W0 EXCEPT !.openStartDialog = FALSE])

\* (mutant) the PUT fired at the click, not awaiting the status read
handleConfirmStartMeeting_NoAwait(w) ==
  Spawn([w EXCEPT !.loading = TRUE, !.openStartDialog = FALSE],
        [NewTask("confirmStart") EXCEPT !.pc = "putStart"])
\* handleConfirmStartMeeting, lines 891-944
handleConfirmStartMeeting(w) ==
  LET w1 == [w EXCEPT !.loading = TRUE, !.openStartDialog = FALSE]
  IN IF ~HasUserId(userData)
     THEN [w1 EXCEPT !.alert = "startErr", !.loading = FALSE]
     ELSE StartRead(w1, NewTask("confirmStart"))

HandleConfirmStartMeeting ==
  /\ StartDialogActive
  /\ HasFree(W)
  /\ Become(handleConfirmStartMeeting(W0))

\* (mutant) joining whatever the answer to the PUT is
startPutResponds_JoinsAnyway(w, t, ok) ==
  [Finish(w, t) EXCEPT !.alert = IF ok THEN "startOk" ELSE "startErr",
                       !.isMeetingStarted = TRUE, !.error = ""]
\* the PUT of line 918 comes back: lines 919-934, or the catch of 935-943
startPutResponds(w, t, ok) ==
  IF ok
  THEN [Finish(w, t) EXCEPT !.alert = "startOk", !.isMeetingStarted = TRUE,
                            !.error = ""]
  ELSE [Finish(w, t) EXCEPT !.alert = "startErr", !.loading = FALSE]

StartPutResponds(t, ok) ==
  /\ TaskAt(t, "confirmStart", "putStart")
  /\ Become(startPutResponds(W0, t, ok))

\* ------------------------------------------------------------ the meeting
\* MeetingWrapper's effect, lines 574-578
MeetingWrapperEffect ==
  /\ MeetingVisible /\ ~navigated
  /\ meetingRef = "null"
  /\ Become([W0 EXCEPT !.meetingRef = "meeting"])

\* handleShowEndDialog, lines 1072-1094
handleShowEndDialog(w) ==
  IF w.isConsultant
  THEN StartRead([w EXCEPT !.consultantNote = "", !.openEndDialog = TRUE],
                 NewTask("showEnd"))
  ELSE handleOnMeetingLeave(w, w.staleStreams.aud, w.staleStreams.vid)

HandleShowEndDialog ==
  /\ MeetingVisible /\ PageActive
  /\ meetingRef # "null"
  /\ HasFree(W)
  /\ Become(handleShowEndDialog(W0))

\* line 1220
SetConsultantNote(note) ==
  /\ EndDialogActive
  /\ note # consultantNote
  /\ Become([W0 EXCEPT !.consultantNote = note])

\* lines 1186 and 1224
CloseEndDialog ==
  /\ EndDialogActive
  /\ Become([W0 EXCEPT !.openEndDialog = FALSE])

\* handleConfirmEndMeeting, lines 968-1016; the handler is the one of the
\* render it was clicked in, with that render's note and streams
handleConfirmEndMeeting(w) ==
  LET w1 == [w EXCEPT !.openEndDialog = FALSE]
  IN IF ~HasUserId(userData)
     THEN [w1 EXCEPT !.alert = "endErr"]
     ELSE StartRead(w1, [NewTask("confirmEnd") EXCEPT
                           !.note = w.consultantNote,
                           !.aud = w.customAudioStream,
                           !.vid = w.customVideoStream])

HandleConfirmEndMeeting ==
  /\ EndDialogActive
  /\ HasFree(W)
  /\ Become(handleConfirmEndMeeting(W0))

\* (mutant) leaving whatever the answer to the PUT is
endPutResponds_LeavesAnyway(w, t, ok) ==
  confirmEndLeave([Finish(w, t) EXCEPT !.alert = IF ok THEN "endOk" ELSE "endErr"],
                  w.tasks[t])
\* the PUT of line 994 comes back: lines 998-1007, or the catch of 1008-1015
endPutResponds(w, t, ok) ==
  IF ok
  THEN confirmEndLeave([Finish(w, t) EXCEPT !.alert = "endOk"], w.tasks[t])
  ELSE [Finish(w, t) EXCEPT !.alert = "endErr"]

EndPutResponds(t, ok) ==
  /\ TaskAt(t, "confirmEnd", "putEnd")
  /\ Become(endPutResponds(W0, t, ok))

\* line 1110
ErrorGoHome ==
  /\ ErrorVisible /\ PageActive
  /\ Become([W0 EXCEPT !.navigated = TRUE])

\* the route is left (after navigate('/'), or by the user at any time): the
\* cleanup of lines 615-641 runs with the streams of the last render.  The
\* component's state is gone with it (shown as the values of a fresh
\* component), and a timer callback that fires later sets state of an
\* unmounted component, which does nothing: it is dropped here.
Unmount ==
  /\ mounted
  /\ Become([effectCleanup(W0, customAudioStream, customVideoStream)
               EXCEPT !.mounted = FALSE, !.timers = 0,
                      !.participantName = <<>>, !.isMeetingStarted = FALSE,
                      !.loading = FALSE, !.error = "", !.isConsultant = FALSE,
                      !.openStartDialog = FALSE, !.openEndDialog = FALSE,
                      !.consultantNote = "", !.customAudioStream = 0,
                      !.customVideoStream = 0,
                      !.staleStreams = [aud |-> 0, vid |-> 0]])

Next ==
  \/ \E t \in TaskIds, ok \in BOOLEAN : GetTokenResponds(t, ok)
  \/ \E t \in TaskIds, r \in {"fullName", "noName", "fail"} : MeResponds(t, r)
  \/ \E t \in TaskIds, r \in {"ok", "err", "throw"} : ValidateResponds(t, r)
  \/ \E name \in NameInputs : SetParticipantName(name)
  \/ SetCustomAudioStream
  \/ SetCustomVideoStream
  \/ OnClickStartMeeting
  \/ \E t \in TaskIds, resp \in GetResponses : AppointmentGetResponds(t, resp)
  \/ \E t \in TaskIds, rresp \in RefreshResponses : RefreshResponds(t, rresp)
  \/ StartDialogTimer
  \/ CloseStartDialog
  \/ HandleConfirmStartMeeting
  \/ \E t \in TaskIds, ok \in BOOLEAN : StartPutResponds(t, ok)
  \/ MeetingWrapperEffect
  \/ HandleShowEndDialog
  \/ \E note \in Notes : SetConsultantNote(note)
  \/ CloseEndDialog
  \/ HandleConfirmEndMeeting
  \/ \E t \in TaskIds, ok \in BOOLEAN : EndPutResponds(t, ok)
  \/ ErrorGoHome
  \/ Unmount

Spec == Init /\ [][Next]_vars

\* ------------------------------------------------------ steps, by name
\* The status a GET response hands to the handler once the read is over.
Observed(resp) == IF resp \in StatusValues THEN resp ELSE UNKNOWN
Statuses == StatusValues \cup {UNKNOWN}

\* This step ends the status read awaited by the `kind` handler in slot t,
\* and the read's result is `status`: the GET came back for good (not the
\* first 401 that starts a refresh), or the refresh failed.
ReadEnds(t, kind, status) ==
  /\ tasks[t].kind = kind
  /\ tasks'[t] # tasks[t]
  /\ \/ /\ tasks[t].pc = "get"
        /\ \E resp \in GetResponses :
             /\ status = Observed(resp)
             /\ ~(resp = "401" /\ ~tasks[t].isRetry /\ refreshToken)
             /\ AppointmentGetResponds(t, resp)
     \/ /\ tasks[t].pc = "refresh"
        /\ status = UNKNOWN
        /\ \E rresp \in RefreshResponses \ {"ok"} : RefreshResponds(t, rresp)

\* A handler's status read that makes no request: no user id, or no token.
ReadIsImmediate == ~HasUserId(userData) \/ accessToken = 0

StartIssued(t) == tasks'[t].pc = "putStart" /\ tasks[t].pc # "putStart"
EndIssued(t) == tasks'[t].pc = "putEnd" /\ tasks[t].pc # "putEnd"
NoStartIssued == \A u \in TaskIds : ~StartIssued(u)
NoEndIssued == \A u \in TaskIds : ~EndIssued(u)

\* ------------------------------------------------------------------ C1
\* C1: a PUT .../start is issued only in the step in which the status read
\* of a handleConfirmStartMeeting returns exactly CONFIRMED, and a PUT
\* .../end only in the step in which the status read of a
\* handleConfirmEndMeeting returns exactly ON_GOING; with every other
\* observed status neither handler issues its mutation.
C1_MutationOnlyAfterExactStatus ==
  [][\A t \in TaskIds :
       /\ StartIssued(t) =>
            /\ tasks[t].kind = "confirmStart"
            /\ AppointmentGetResponds(t, "CONFIRMED")
            /\ tasks'[t].seen = "CONFIRMED"
       /\ EndIssued(t) =>
            /\ tasks[t].kind = "confirmEnd"
            /\ AppointmentGetResponds(t, "ON_GOING")
            /\ tasks'[t].seen = "ON_GOING"
       /\ tasks'[t] # tasks[t] /\ tasks[t].kind \in {"confirmStart", "confirmEnd"} =>
            \A status \in Statuses :
              /\ ReadEnds(t, "confirmStart", status) /\ status # "CONFIRMED"
                   => NoStartIssued
              /\ ReadEnds(t, "confirmEnd", status) /\ status # "ON_GOING"
                   => NoEndIssued
    ]_vars

\* both mutations are in flight, each after its own read
C1_Witness ==
  \E t, u \in TaskIds :
     /\ tasks[t].pc = "putStart" /\ tasks[t].seen = "CONFIRMED"
     /\ tasks[u].pc = "putEnd" /\ tasks[u].seen = "ON_GOING"

\* ------------------------------------------------------------------ C2
\* what "joins directly" is: the meeting is started and the spinner off, no
\* prompt is scheduled or opened, and no start mutation goes out
JoinsDirectly ==
  /\ isMeetingStarted' /\ ~loading'
  /\ timers' = timers /\ openStartDialog' = openStartDialog
  /\ NoStartIssued

\* the start intent of a consultant with a non-blank name whose status read
\* makes no request; its result is UNKNOWN
ImmediateStartIntent ==
  /\ isConsultant /\ Trim(participantName) # <<>> /\ ReadIsImmediate
  /\ OnClickStartMeeting

PromptsInsteadOfJoining ==
  /\ ~loading' /\ timers' = timers + 1
  /\ isMeetingStarted' = isMeetingStarted
  /\ NoStartIssued

\* the parts of C3 about the prompt being presented and being cancelled
C3_PromptAndCancel ==
  /\ \A t \in TaskIds :
       /\ mounted /\ tasks'[t] # tasks[t] /\ tasks[t].kind = "onClickStart"
          /\ ReadEnds(t, "onClickStart", "CONFIRMED")
            => PromptsInsteadOfJoining
       /\ StartIssued(t) => tasks[t].kind = "confirmStart"
  /\ StartDialogTimer => openStartDialog'
  /\ CloseStartDialog =>
       /\ ~openStartDialog' /\ NoStartIssued
       /\ isMeetingStarted' = isMeetingStarted

\* C3 as stated: with status exactly CONFIRMED the start intent presents the
\* prompt and does not join; cancelling issues no mutation and does not
\* join; a confirm handler issues the mutation and then joins (it ends only
\* by the answer to its PUT, and with the meeting started).
C3_AsStated ==
  [][/\ C3_PromptAndCancel
     /\ \A t \in TaskIds :
          mounted /\ tasks[t].kind = "confirmStart" /\ tasks'[t] = IdleTask
            => tasks[t].pc = "putStart" /\ isMeetingStarted'
    ]_vars

\* C3 amended: with status exactly CONFIRMED the start intent presents the
\* prompt and does not join; cancelling issues no mutation and does not
\* join; confirming reads the status again and issues the mutation only if
\* that read is exactly CONFIRMED, joining once the mutation succeeded and
\* staying unjoined if it failed; if that read is anything else the handler
\* joins with no mutation.
C3_ConfirmRereadsThenStartsOrJoins ==
  [][/\ C3_PromptAndCancel
     /\ \A t \in TaskIds :
          tasks'[t] # tasks[t] /\ tasks[t].kind = "confirmStart" =>
            /\ \A status \in Statuses :
                 ReadEnds(t, "confirmStart", status) =>
                   IF status = "CONFIRMED"
                   THEN StartIssued(t) /\ isMeetingStarted' = isMeetingStarted
                   ELSE /\ NoStartIssued /\ tasks'[t] = IdleTask
                        /\ mounted => isMeetingStarted'
            /\ StartPutResponds(t, TRUE) /\ mounted => isMeetingStarted'
            /\ StartPutResponds(t, FALSE) =>
                 alert' = "startErr" /\ isMeetingStarted' = isMeetingStarted
    ]_vars

\* the prompt was confirmed, the status read again as CONFIRMED, and the
\* start mutation is in flight with the meeting not yet joined
C3_Witness ==
  \E t \in TaskIds :
     /\ tasks[t].kind = "confirmStart" /\ tasks[t].pc = "putStart"
     /\ mounted /\ ~isMeetingStarted /\ loading /\ ~openStartDialog

\* ------------------------------------------------------------------ C4
\* what "leaves the meeting" is: leave() was called, the meeting handle is
\* dropped, the meeting is not shown and the route is the root
HasLeft ==
  /\ leaveCalls' >= 1 /\ meetingRef' = "null"
  /\ ~isMeetingStarted' /\ navigated'

\* the end intent of a consultant whose status read makes no request; its
\* result is UNKNOWN
ImmediateEndIntent ==
  /\ isConsultant /\ ReadIsImmediate
  /\ HandleShowEndDialog

\* C4: when the status read of handleShowEndDialog gives anything other than
\* ON_GOING the meeting is left (leave() called, isMeetingStarted false, the
\* route is the root, the prompt closed) and no end mutation goes out,
\* whatever was clicked on the open prompt meanwhile: a confirm click issues
\* the end mutation only for a read of its own that gave ON_GOING.
C4_LeavesWithoutEndUnlessOnGoing ==
  [][/\ ImmediateEndIntent => HasLeft /\ NoEndIssued /\ ~openEndDialog'
     /\ \A t \in TaskIds :
          /\ tasks'[t] # tasks[t] /\ tasks[t].kind = "showEnd" =>
               \A status \in Statuses \ {"ON_GOING"} :
                  ReadEnds(t, "showEnd", status) =>
                    /\ HasLeft /\ NoEndIssued /\ ~openEndDialog'
                    /\ mounted => leaveCalls' = leaveCalls + 1
          /\ tasks'[t] # tasks[t] /\ tasks[t].kind = "confirmEnd" =>
               \A status \in Statuses \ {"ON_GOING"} :
                  ReadEnds(t, "confirmEnd", status) => HasLeft /\ NoEndIssued
          /\ EndIssued(t) =>
               tasks[t].kind = "confirmEnd" /\ AppointmentGetResponds(t, "ON_GOING")
    ]_vars

\* the background read of the end intent has left the meeting while the
\* read of a confirm click on the prompt is still in flight
C4_Witness ==
  /\ mounted /\ navigated /\ leaveCalls = 1 /\ ~isMeetingStarted
  /\ \E t \in TaskIds : tasks[t].kind = "confirmEnd" /\ tasks[t].pc = "get"

\* ------------------------------------------------------------------ C5
\* nothing of the meeting is torn down by this step
StaysInMeeting ==
  /\ leaveCalls' = leaveCalls /\ meetingRef' = meetingRef
  /\ navigated' = navigated /\ isMeetingStarted' = isMeetingStarted

\* the parts of C5 about the prompt staying, the note and the cancel
C5_PromptNoteAndCancel ==
  /\ \A t \in TaskIds :
       /\ tasks'[t] # tasks[t] /\ tasks[t].kind = "showEnd"
          /\ ReadEnds(t, "showEnd", "ON_GOING")
            => /\ openEndDialog' = openEndDialog
               /\ StaysInMeeting /\ NoEndIssued
       /\ HandleConfirmEndMeeting /\ tasks'[t] # tasks[t]
            => tasks'[t].note = consultantNote
       /\ EndIssued(t) => /\ tasks'[t].sent = tasks[t].note
                          /\ StaysInMeeting
  /\ CloseEndDialog =>
       /\ ~openEndDialog' /\ NoEndIssued
       /\ leaveCalls' = leaveCalls /\ isMeetingStarted'

\* C5 as stated: with status exactly ON_GOING the end prompt stays open;
\* cancelling closes it with no mutation, no leave and the meeting still
\* started; a confirm handler issues the end mutation with the note entered
\* and only afterwards leaves (it ends only by the answer to its PUT, and
\* with the meeting left).
C5_AsStated ==
  [][/\ C5_PromptNoteAndCancel
     /\ \A t \in TaskIds :
          tasks[t].kind = "confirmEnd" /\ tasks'[t] = IdleTask
            => tasks[t].pc = "putEnd" /\ HasLeft
    ]_vars

\* C5 amended: with status exactly ON_GOING the end prompt is left as it is;
\* cancelling closes it with no mutation, no leave and the meeting still
\* started; confirming reads the status again and, only if that read is
\* exactly ON_GOING, issues the end mutation with the note entered at the
\* click, leaving once the mutation succeeded and staying in the meeting if
\* it failed; if that read is anything else the handler leaves with no
\* mutation.
C5_ConfirmRereadsThenEndsOrLeaves ==
  [][/\ C5_PromptNoteAndCancel
     /\ \A t \in TaskIds :
          tasks'[t] # tasks[t] /\ tasks[t].kind = "confirmEnd" =>
            /\ \A status \in Statuses :
                 ReadEnds(t, "confirmEnd", status) =>
                   IF status = "ON_GOING"
                   THEN EndIssued(t)
                   ELSE NoEndIssued /\ tasks'[t] = IdleTask /\ HasLeft
            /\ EndPutResponds(t, TRUE) => alert' = "endOk" /\ HasLeft
            /\ EndPutResponds(t, FALSE) => alert' = "endErr" /\ StaysInMeeting
    ]_vars

\* the prompt was confirmed with a note entered, the status read again as
\* ON_GOING, and the end mutation carrying the note is in flight, the
\* meeting still on
C5_Witness ==
  \E t \in TaskIds :
     /\ tasks[t].kind = "confirmEnd" /\ tasks[t].pc = "putEnd"
     /\ tasks[t].note = "note" /\ tasks[t].sent = "note"
     /\ mounted /\ isMeetingStarted /\ ~navigated /\ leaveCalls = 0

\* ------------------------------------------------------------------ C6
\* This step ends the status read awaited by the `kind` handler in slot t
\* with a failure: transport error, non-OK answer, a 401 that is not
\* followed by a retry, or a failed refresh.
ReadFails(t, kind) ==
  /\ tasks[t].kind = kind
  /\ tasks'[t] # tasks[t]
  /\ \/ /\ tasks[t].pc = "get"
        /\ \/ \E resp \in {"netErr", "notOk"} : AppointmentGetResponds(t, resp)
           \/ /\ tasks[t].isRetry \/ ~refreshToken
              /\ AppointmentGetResponds(t, "401")
     \/ /\ tasks[t].pc = "refresh"
        /\ \E rresp \in RefreshResponses \ {"ok"} : RefreshResponds(t, rresp)

\* C6 as stated: when the status check fails (no usable token, transport
\* error, non-OK answer, 401 on both attempts) the start intent of a
\* consultant presents the prompt instead of joining.
C6_AsStated ==
  [][mounted =>
       /\ ImmediateStartIntent => PromptsInsteadOfJoining
       /\ \A t \in TaskIds :
            ReadFails(t, "onClickStart") => PromptsInsteadOfJoining
    ]_vars

\* ------------------------------------------------------------------ C7
\* C7 as stated: when the status check fails during the end intent the end
\* prompt stays open and the meeting is not left.
C7_AsStated ==
  [][mounted =>
       /\ ImmediateEndIntent => openEndDialog' /\ StaysInMeeting
       /\ \A t \in TaskIds :
            ReadFails(t, "showEnd") /\ openEndDialog
              => openEndDialog' /\ StaysInMeeting
    ]_vars

\* ------------------------------------------------------------------ C8
\* C8 as stated: however the flow ends, and even if it is torn down twice,
\* leave() is called once and each local track is stopped once.
C8_AsStated ==
  /\ leaveCalls <= 1
  /\ \A i \in 1..MaxStreams : trackStops[i] <= 1
  /\ ~mounted /\ meetingRef # "null" => leaveCalls = 1

\* ------------------------------------------------- the status read alone
\* The same flow with every finished status read noted in readDone: the
\* last answer to its GET, whether that GET was the retry, the answer to its
\* refresh, and the result handed to the caller.
InitRead == InitBase /\ traced = TRUE /\ NoLogin /\ NoPid

\* checkAppointmentStatus is one function for its four callers: here it is
\* driven by the two of the start path, on a page that may be left meanwhile
NextRead ==
  \/ \E t \in TaskIds, ok \in BOOLEAN : GetTokenResponds(t, ok)
  \/ \E t \in TaskIds, r \in {"fullName", "noName", "fail"} : MeResponds(t, r)
  \/ \E t \in TaskIds, r \in {"ok", "err", "throw"} : ValidateResponds(t, r)
  \/ \E name \in NameInputs : SetParticipantName(name)
  \/ OnClickStartMeeting
  \/ \E t \in TaskIds, resp \in GetResponses : AppointmentGetResponds(t, resp)
  \/ \E t \in TaskIds, rresp \in RefreshResponses : RefreshResponds(t, rresp)
  \/ StartDialogTimer
  \/ CloseStartDialog
  \/ HandleConfirmStartMeeting
  \/ \E t \in TaskIds, ok \in BOOLEAN : StartPutResponds(t, ok)
  \/ Unmount

ReadSpec == InitRead /\ [][NextRead]_vars

Reading(t) == tasks[t].pc \in {"get", "refresh"}

\* fetch() settles: every request of a status read is answered in the end
FairReadSpec ==
  /\ ReadSpec
  /\ \A t \in TaskIds :
       /\ WF_vars(\E resp \in GetResponses : AppointmentGetResponds(t, resp))
       /\ WF_vars(\E rresp \in RefreshResponses : RefreshResponds(t, rresp))

\* ------------------------------------------------------------------ C9
\* C9: a status read whose first GET was answered 401, whose refresh
\* succeeded and whose retried GET brought a valid appointment gives that
\* appointment's status; one whose retried GET fails as well, or whose
\* refresh fails, gives UNKNOWN.
C9_RetryGivesRealStatusOrUnknown ==
  /\ readDone.isRetry /\ readDone.resp \in StatusValues
       => readDone.refresh = "ok" /\ readDone.result = readDone.resp
  /\ readDone.isRetry /\ readDone.resp \in GetResponses \ StatusValues
       => readDone.result = UNKNOWN
  /\ readDone.refresh \notin {"-", "ok"}
       => readDone.resp = "401" /\ readDone.result = UNKNOWN

\* a read has ended whose retry after a refresh brought status ON_GOING
C9_Witness ==
  /\ readDone.isRetry /\ readDone.refresh = "ok"
  /\ readDone.resp = "ON_GOING" /\ readDone.result = "ON_GOING"

\* ------------------------------------------------------------------ C10
\* C10: one status read makes at most one refresh and at most two GETs,
\* comes to an end, and hands its caller a status (UNKNOWN on every
\* failure), never an error.
C10_ReadBoundedTotalAndEnds ==
  /\ [](\A t \in TaskIds : tasks[t].gets <= 2 /\ tasks[t].refreshes <= 1)
  /\ [](readDone.result \in {"-"} \cup Statuses)
  /\ \A t \in TaskIds : Reading(t) ~> ~Reading(t)

\* a read that made two GETs and one refresh has ended with UNKNOWN, the
\* retry having been answered 401 again
C10_Witness ==
  /\ readDone.isRetry /\ readDone.resp = "401" /\ readDone.result = UNKNOWN
  /\ \A t \in TaskIds : ~Reading(t)

\* ------------------------------------------------------------------ C11
\* C11: a start or end mutation is issued only in the step in which the GET
\* of the same handler's status read is answered for good: the read is over
\* (no request of it is outstanding any more, none is made in that step) and
\* the handler holds its result, which is the status that answer carried.
C11_MutationAfterReadIsOver ==
  [][\A t \in TaskIds :
       StartIssued(t) \/ EndIssued(t) =>
         /\ Reading(t) /\ tasks[t].pc = "get" /\ tasks[t].gets >= 1
         /\ ~Reading(t)'
         /\ tasks'[t].gets = tasks[t].gets
         /\ tasks'[t].refreshes = tasks[t].refreshes
         /\ \E resp \in StatusValues :
              /\ AppointmentGetResponds(t, resp)
              /\ tasks'[t].seen = Observed(resp)
    ]_vars

\* an end mutation is in flight whose status read took a refresh and a
\* retried GET before it was over
C11_Witness ==
  \E t \in TaskIds :
     /\ tasks[t].pc = "putEnd" /\ tasks[t].isRetry
     /\ tasks[t].gets = 2 /\ tasks[t].refreshes = 1
     /\ tasks[t].seen = "ON_GOING"

\* ------------------------------------------------------------------ C12
\* C12: when the start mutation fails the meeting is not joined by it, an
\* error notice is raised and the spinner taken off, so that the joining
\* screen is there again; when the end mutation fails the meeting is not
\* left (no leave call, no navigation, the meeting still shown) and an error
\* notice is raised.
C12_FailedMutationChangesNothing ==
  [][\A t \in TaskIds :
       /\ tasks[t].pc = "putStart" /\ tasks'[t] # tasks[t]
          /\ StartPutResponds(t, FALSE) =>
            /\ alert' = "startErr"
            /\ isMeetingStarted' = isMeetingStarted
            /\ tasks'[t] = IdleTask /\ NoStartIssued
            /\ openStartDialog' = openStartDialog
            /\ mounted => ~loading'
       /\ tasks[t].pc = "putEnd" /\ tasks'[t] # tasks[t]
          /\ EndPutResponds(t, FALSE) =>
            /\ alert' = "endErr"
            /\ StaysInMeeting
            /\ tasks'[t] = IdleTask /\ NoEndIssued
            /\ mounted => isMeetingStarted' /\ ~navigated'
    ]_vars

\* the end mutation has just failed: the notice is up, the meeting goes on
C12_Witness ==
  /\ alert = "endErr" /\ HasUserId(userData)
  /\ mounted /\ isMeetingStarted /\ ~navigated
  /\ meetingRef # "null" /\ leaveCalls = 0

\* ====================================================== the login screen
UsernameInputs == {<<>>, <<" ">>, <<"u">>}
PasswordInputs == {<<>>, <<" ">>, <<"p">>}
\* error.name of what login() rejects with
ErrorNames == {"TypeError", "NetworkError", "AxiosError", "Error"}
ReturnUrls == {"", "/return"}
SavedUrls == {"", "/saved"}
\* localStorage 'pendingSurveySubmission': absent, a full record, a record
\* without surveyId or selectedOptionIds, or text JSON.parse rejects
PendingSurveys == {"none", "full", "incomplete", "unparsable"}

LW ==
  [ username |-> username, password |-> password, isLoading |-> isLoading,
    errors |-> errors, href |-> href,
    redirectAfterLogin |-> redirectAfterLogin, loginSuccess |-> loginSuccess,
    pendingSurveySubmission |-> pendingSurveySubmission,
    surveySubmissionResult |-> surveySubmissionResult,
    logins |-> logins, effects |-> effects,
    accessToken |-> accessToken, refreshToken |-> refreshToken ]

BecomeL(l) ==
  /\ username' = l.username
  /\ password' = l.password
  /\ isLoading' = l.isLoading
  /\ errors' = l.errors
  /\ href' = l.href
  /\ redirectAfterLogin' = l.redirectAfterLogin
  /\ loginSuccess' = l.loginSuccess
  /\ pendingSurveySubmission' = l.pendingSurveySubmission
  /\ surveySubmissionResult' = l.surveySubmissionResult
  /\ logins' = l.logins
  /\ effects' = l.effects
  /\ accessToken' = l.accessToken
  /\ refreshToken' = l.refreshToken
  /\ UNCHANGED << returnUrl, meetingVars, pidVars >>

\* effects lists what the step just taken did, in the order the code did it
LW0 == [LW EXCEPT !.effects = <<>>]
Did(l, e) == [l EXCEPT !.effects = Append(@, e)]

FreeLogin(l) == {t \in LoginIds : l.logins[t].kind = "idle"}
SpawnLogin(l, task) ==
  LET t == CHOOSE x \in FreeLogin(l) : \A y \in FreeLogin(l) : x <= y
  IN [l EXCEPT !.logins[t] = task]

\* (mutant) the username tested without trim()
validateForm_UntrimmedUsername(uname, pwd) ==
  [ username |-> IF uname = <<>> THEN "required" ELSE "",
    password |-> IF pwd = <<>> THEN "required" ELSE "" ]
\* validateForm lines 196-207: newErrors
validateForm(uname, pwd) ==
  [ username |-> IF Trim(uname) = <<>> THEN "required" ELSE "",
    password |-> IF pwd = <<>> THEN "required" ELSE "" ]

\* validateForm line 209: Object.keys(newErrors).length === 0
IsValid(newErrors) == newErrors.username = "" /\ newErrors.password = ""

\* (mutant) the route's returnUrl looked at first
formRedirect_ReturnUrlFirst(l) ==
  IF returnUrl # "" THEN Did([l EXCEPT !.href = returnUrl], "redirect")
  ELSE IF l.redirectAfterLogin # ""
  THEN Did([l EXCEPT !.redirectAfterLogin = "", !.href = l.redirectAfterLogin],
           "redirect")
  ELSE Did([l EXCEPT !.href = "/"], "redirect")
\* handleSubmit lines 253-267
formRedirect(l) ==
  IF l.redirectAfterLogin # ""
  THEN Did([l EXCEPT !.redirectAfterLogin = "", !.href = l.redirectAfterLogin],
           "redirect")
  ELSE IF returnUrl # "" THEN Did([l EXCEPT !.href = returnUrl], "redirect")
  ELSE Did([l EXCEPT !.href = "/"], "redirect")

\* (mutant) the Google path going to the root whatever was requested
googleRedirect_AlwaysRoot(l) == Did([l EXCEPT !.href = "/"], "redirect")
\* handleGoogleLoginResponse lines 130-139
googleRedirect(l) ==
  IF l.redirectAfterLogin # ""
  THEN Did([l EXCEPT !.redirectAfterLogin = "", !.href = l.redirectAfterLogin],
           "redirect")
  ELSE IF returnUrl # "" THEN Did([l EXCEPT !.href = returnUrl], "redirect")
  ELSE Did([l EXCEPT !.href = "/"], "redirect")

\* (mutant) a handler without its finally
finishLogin_NoFinally(l, t) == [l EXCEPT !.logins[t] = IdleLogin]
\* the finally of lines 143-145 and 277-279, and the handler is over
finishLogin(l, t) == [l EXCEPT !.isLoading = FALSE, !.logins[t] = IdleLogin]

\* what follows handlePendingSurveySubmission in either handler
afterSurvey(l, t) ==
  finishLogin(IF l.logins[t].kind = "form" THEN formRedirect(l)
              ELSE googleRedirect(l), t)

\* (mutant) the catch leaving the queued payload for a later attempt
surveyFailed_KeepsPayload(l) ==
  Did([l EXCEPT !.surveySubmissionResult = "fail"], "flushEnd")
\* the catch of handlePendingSurveySubmission, lines 178-191
surveyFailed(l) ==
  Did([l EXCEPT !.surveySubmissionResult = "fail",
                !.pendingSurveySubmission = "none"], "flushEnd")

\* (mutant) the flush called without await
surveyBegin_NotAwaited(l, t) ==
  LET l1 == Did(l, "flushStart")
  IN CASE l.pendingSurveySubmission = "none" -> afterSurvey(Did(l1, "flushEnd"), t)
       [] l.pendingSurveySubmission = "full" -> afterSurvey(Did(l1, "surveyCall"), t)
       [] OTHER -> afterSurvey(surveyFailed(l1), t)
\* handlePendingSurveySubmission lines 150-166, called at lines 127 and 250
surveyBegin(l, t) ==
  LET l1 == Did(l, "flushStart")
  IN CASE l.pendingSurveySubmission = "none" -> afterSurvey(Did(l1, "flushEnd"), t)
       [] l.pendingSurveySubmission = "full" ->
            Did([l1 EXCEPT !.logins[t].pc = "survey"], "surveyCall")
       [] OTHER -> afterSurvey(surveyFailed(l1), t)

\* submitSurveyResult comes back: lines 168-177, or the catch
surveyResponds(l, t, ok) ==
  afterSurvey(IF ok
              THEN Did([l EXCEPT !.pendingSurveySubmission = "none",
                                 !.surveySubmissionResult = "ok"], "flushEnd")
              ELSE surveyFailed(l), t)

\* login() of authService resolves only after it has put both tokens into
\* localStorage
loginPersists(l, tok) ==
  Did([l EXCEPT !.accessToken = tok, !.refreshToken = TRUE], "tokens")

\* (mutant) only TypeError taken for a transport failure
classify_TypeErrorOnly(name) ==
  IF name = "TypeError" THEN "connectivityNotice" ELSE "credentialsNotice"
\* handleSubmit lines 271-276
classify(name) ==
  IF name = "TypeError" \/ name = "NetworkError"
  THEN "connectivityNotice" ELSE "credentialsNotice"

\* login() comes back: lines 246-267, or the catch of lines 268-276
loginResponds(l, t, r, tok) ==
  IF r = "ok"
  THEN surveyBegin(Did([loginPersists(l, tok) EXCEPT !.loginSuccess = TRUE],
                       "flag"), t)
  ELSE finishLogin(Did(l, classify(r)), t)

\* (mutant) the flag set and the queue flushed before the answer is looked at
googleLoginResponds_FlagFirst(l, t, r, tok) ==
  IF r = "ok"
  THEN surveyBegin(Did([Did([l EXCEPT !.accessToken = tok,
                                      !.refreshToken = TRUE], "tokens")
                          EXCEPT !.loginSuccess = TRUE], "flag"), t)
  ELSE finishLogin(Did(Did([l EXCEPT !.loginSuccess = TRUE,
                                     !.pendingSurveySubmission = "none"],
                           "flag"), "googleNotice"), t)
\* the POST of line 113 comes back: lines 117-139, or the catch of 140-142
googleLoginResponds(l, t, r, tok) ==
  IF r = "ok"
  THEN surveyBegin(Did([Did([l EXCEPT !.accessToken = tok,
                                      !.refreshToken = TRUE], "tokens")
                          EXCEPT !.loginSuccess = TRUE], "flag"), t)
  ELSE finishLogin(Did(l, "googleNotice"), t)

\* handleSubmit lines 232-244
handleSubmit(l) ==
  LET newErrors == validateForm(l.username, l.password)
      l1 == [l EXCEPT !.errors = newErrors]
  IN IF ~IsValid(newErrors) THEN Did(l1, "blocked")
     ELSE Did(SpawnLogin([l1 EXCEPT !.isLoading = TRUE],
                         [kind |-> "form", pc |-> "login",
                          username |-> l.username, password |-> l.password]),
              "loginCall")

\* handleGoogleLoginResponse lines 107-115
handleGoogleLoginResponse(l) ==
  Did(SpawnLogin([l EXCEPT !.isLoading = TRUE],
                 [IdleLogin EXCEPT !.kind = "google", !.pc = "login"]),
      "googleCall")

\* handleUsernameChange lines 212-220
handleUsernameChange(l, v) ==
  [l EXCEPT !.username = v,
            !.errors = IF l.errors.username # ""
                       THEN [@ EXCEPT !.username = ""] ELSE @]

\* handlePasswordChange lines 222-230
handlePasswordChange(l, v) ==
  [l EXCEPT !.password = v,
            !.errors = IF l.errors.password # ""
                       THEN [@ EXCEPT !.password = ""] ELSE @]

\* the document is still the login page: no redirect has been asked for
OnLoginPage == href = ""

HandleUsernameChange(v) ==
  /\ OnLoginPage /\ v # username
  /\ BecomeL(handleUsernameChange(LW0, v))

HandlePasswordChange(v) ==
  /\ OnLoginPage /\ v # password
  /\ BecomeL(handlePasswordChange(LW0, v))

\* the form is submitted; its button is disabled while isLoading (line 417)
HandleSubmit ==
  /\ OnLoginPage /\ ~isLoading
  /\ FreeLogin(LW) # {}
  /\ BecomeL(handleSubmit(LW0))

\* window.handleGoogleLogin, lines 71-74: the Google button is never disabled
HandleGoogleLoginResponse ==
  /\ OnLoginPage
  /\ FreeLogin(LW) # {}
  /\ BecomeL(handleGoogleLoginResponse(LW0))

LoginResponds(t, r, tok) ==
  /\ logins[t].kind = "form" /\ logins[t].pc = "login"
  /\ BecomeL(loginResponds(LW0, t, r, tok))

GoogleLoginResponds(t, r, tok) ==
  /\ logins[t].kind = "google" /\ logins[t].pc = "login"
  /\ BecomeL(googleLoginResponds(LW0, t, r, tok))

SurveyResponds(t, ok) ==
  /\ logins[t].pc = "survey"
  /\ BecomeL(surveyResponds(LW0, t, ok))

\* the meeting screen is not on the page
NoMeeting ==
  /\ participantName = <<>> /\ isMeetingStarted = FALSE /\ loading = FALSE
  /\ error = "" /\ isConsultant = FALSE
  /\ openStartDialog = FALSE /\ openEndDialog = FALSE /\ consultantNote = ""
  /\ customAudioStream = 0 /\ customVideoStream = 0
  /\ meetingRef = "null" /\ mounted = FALSE /\ navigated = FALSE
  /\ timers = 0 /\ staleStreams = [aud |-> 0, vid |-> 0]
  /\ userData = NoUser /\ videoCallId = FALSE
  /\ tasks = [t \in TaskIds |-> IdleTask]
  /\ leaveCalls = 0 /\ trackStops = [i \in 1..MaxStreams |-> 0]
  /\ alert = "none" /\ traced = FALSE /\ readDone = NoRead

InitLogin ==
  /\ LoginAtRest
  /\ returnUrl \in ReturnUrls
  /\ redirectAfterLogin \in SavedUrls
  /\ pendingSurveySubmission \in PendingSurveys
  /\ accessToken \in {0, 1} /\ refreshToken \in BOOLEAN
  /\ NoMeeting /\ NoPid

NextLogin ==
  \/ \E v \in UsernameInputs : HandleUsernameChange(v)
  \/ \E v \in PasswordInputs : HandlePasswordChange(v)
  \/ HandleSubmit
  \/ HandleGoogleLoginResponse
  \/ \E t \in LoginIds, r \in {"ok"} \cup ErrorNames, tok \in 1..MaxToken :
       LoginResponds(t, r, tok)
  \/ \E t \in LoginIds, r \in {"ok", "fail"}, tok \in 1..MaxToken :
       GoogleLoginResponds(t, r, tok)
  \/ \E t \in LoginIds, ok \in BOOLEAN : SurveyResponds(t, ok)

LoginSpec == InitLogin /\ [][NextLogin]_vars

\* ------------------------------------------------------------------ C13
\* C13 as stated: while a login handler awaits (login, Google login, survey
\* flush) isLoading holds, and while a handler of the meeting screen awaits
\* (join token, status read, start or end mutation) loading holds and the
\* spinner is rendered.
C13_AsStated ==
  /\ (\E t \in LoginIds : logins[t].kind # "idle") => isLoading
  /\ mounted /\ (\E t \in TaskIds : tasks[t].kind # "idle")
       => loading /\ SpinnerVisible

\* ------------------------------------------------------------------ C14
\* C14: a form submission calls login() only if the username is non-empty
\* after trimming and the password is non-empty, and then with the fields as
\* typed; otherwise the inline error of each offending field is set and
\* nothing else happens: no request, no storage write, no redirect.
C14_LoginOnlyWithBothFields ==
  [][/\ HandleSubmit =>
          IF Trim(username) # <<>> /\ password # <<>>
          THEN /\ isLoading' /\ errors' = NoErrors
               /\ \E t \in LoginIds :
                    /\ logins[t] = IdleLogin
                    /\ logins'[t] = [kind |-> "form", pc |-> "login",
                                     username |-> username,
                                     password |-> password]
          ELSE /\ logins' = logins
               /\ errors'.username # "" <=> Trim(username) = <<>>
               /\ errors'.password # "" <=> password = <<>>
               /\ effects' = <<"blocked">>
               /\ UNCHANGED << isLoading, href, accessToken, refreshToken,
                               loginSuccess, redirectAfterLogin,
                               pendingSurveySubmission,
                               surveySubmissionResult >>
     /\ \A t \in LoginIds :
          logins[t].kind = "idle" /\ logins'[t].kind = "form" =>
            /\ logins'[t].pc = "login"
            /\ Trim(logins'[t].username) # <<>>
            /\ logins'[t].password # <<>>
    ]_vars

\* a submission with a blank username and a password was blocked
C14_Witness ==
  /\ effects = <<"blocked">>
  /\ username = <<" ">> /\ password = <<"p">>
  /\ errors = [username |-> "required", password |-> ""]
  /\ \A t \in LoginIds : logins[t] = IdleLogin

\* ------------------------------------------------------------------ C15
Has(es, e) == \E i \in 1..Len(es) : es[i] = e
\* e comes before f in es
Before(es, e, f) == \E i, j \in 1..Len(es) : i < j /\ es[i] = e /\ es[j] = f

\* C15: in a successful login the tokens are persisted, then the
\* login-success flag is set, then the survey flush is begun; the redirect
\* is issued only after that flush has ended (with or without success), in
\* the step in which it ended, and never by a handler whose flush is still
\* outstanding.
C15_SuccessStepsInOrder ==
  [][/\ Has(effects', "flushStart") =>
          /\ Before(effects', "tokens", "flag")
          /\ Before(effects', "flag", "flushStart")
          /\ accessToken' # 0 /\ refreshToken' /\ loginSuccess'
     /\ Has(effects', "tokens") => Has(effects', "flushStart")
     /\ Has(effects', "flushEnd") =>
          \/ Before(effects', "flushStart", "flushEnd")
          \/ \E t \in LoginIds : logins[t].pc = "survey" /\ logins'[t] = IdleLogin
     /\ Has(effects', "redirect") =>
          /\ Before(effects', "flushEnd", "redirect")
          /\ ~Has(effects', "surveyCall")
          /\ pendingSurveySubmission' = "none"
     /\ href' # href => Has(effects', "redirect")
     /\ \A t \in LoginIds :
          logins'[t] # logins[t] /\ logins'[t].pc = "survey" =>
            /\ href' = href
            /\ effects' = <<"tokens", "flag", "flushStart", "surveyCall">>
    ]_vars

\* the flush of a queued survey came back failed, and the redirect followed
C15_Witness ==
  /\ effects = <<"flushEnd", "redirect">>
  /\ surveySubmissionResult = "fail" /\ pendingSurveySubmission = "none"
  /\ loginSuccess /\ href = "/saved"

\* ------------------------------------------------------------------ C16
\* C16: the redirect of a successful login goes to the target kept in
\* sessionStorage 'redirectAfterLogin' when there is one, which is removed
\* from storage; else to the route's returnUrl when there is one; else to
\* '/'.
C16_RedirectTarget ==
  [][Has(effects', "redirect") =>
       /\ href' = IF redirectAfterLogin # "" THEN redirectAfterLogin
                  ELSE IF returnUrl # "" THEN returnUrl
                  ELSE "/"
       /\ redirectAfterLogin' = ""
    ]_vars

\* a login was redirected to the target kept in sessionStorage, which is
\* gone from there, although the route supplied a returnUrl as well
C16_Witness ==
  /\ Has(effects, "redirect")
  /\ href = "/saved" /\ redirectAfterLogin = "" /\ returnUrl = "/return"

\* ------------------------------------------------------------------ C17
\* C17: a form login that fails raises exactly one notice and nothing else:
\* the connectivity notice when the error's name is TypeError or
\* NetworkError, the invalid-credentials notice for every other error.
C17_TwoNotices ==
  [][\A t \in LoginIds :
       logins[t].kind = "form" /\ logins[t].pc = "login"
       /\ logins'[t] = IdleLogin =>
         \A r \in ErrorNames :
           (\E tok \in 1..MaxToken : LoginResponds(t, r, tok)) =>
             /\ effects' = << IF r \in {"TypeError", "NetworkError"}
                              THEN "connectivityNotice"
                              ELSE "credentialsNotice" >>
             /\ ~isLoading'
             /\ UNCHANGED << href, accessToken, refreshToken, loginSuccess >>
    ]_vars

\* a form login has just failed with a transport error
C17_Witness ==
  /\ effects = <<"connectivityNotice">>
  /\ ~isLoading /\ href = "" /\ ~loginSuccess

\* ------------------------------------------------------------------ C18
\* C18 as stated: when a form login has succeeded (its handler is over and
\* has redirected) the username and the password in form state are empty.
C18_AsStated ==
  [][\A t \in LoginIds :
       logins[t].kind = "form" /\ logins'[t] = IdleLogin
       /\ Has(effects', "redirect")
         => username' = <<>> /\ password' = <<>>
    ]_vars

\* ------------------------------------------------------------------ C19
\* the login world with every Google handler taken for a form handler
AsForm(l) ==
  [l EXCEPT !.logins = [u \in LoginIds |->
                          IF l.logins[u].kind = "google"
                          THEN [l.logins[u] EXCEPT !.kind = "form"]
                          ELSE l.logins[u]]]

\* C19: a Google credential starts its handler whatever the form fields
\* hold, no field error being set; and when its request succeeds, the
\* handler does what the form handler would do from the same state: both
\* tokens persisted, the flag set, the queued survey flushed, the same
\* redirect.
C19_GoogleAsForm ==
  [][/\ HandleGoogleLoginResponse =>
          /\ errors' = errors /\ isLoading'
          /\ effects' = <<"googleCall">>
          /\ \E t \in LoginIds :
               logins[t] = IdleLogin /\ logins'[t].kind = "google"
     /\ \A t \in LoginIds :
          logins[t].kind = "google" /\ logins'[t] # logins[t] =>
            /\ logins[t].pc = "login" /\ Has(effects', "tokens") =>
                 /\ refreshToken' /\ loginSuccess'
                 /\ AsForm(LW)' =
                      loginResponds(AsForm(LW0), t, "ok", accessToken')
            /\ logins[t].pc = "survey" =>
                 \E ok \in BOOLEAN :
                    AsForm(LW)' = surveyResponds(AsForm(LW0), t, ok)
    ]_vars

\* a Google login went through to its redirect with both form fields empty
\* and no field error shown
C19_Witness ==
  /\ Has(effects, "redirect") /\ href = "/return"
  /\ username = <<>> /\ password = <<>> /\ errors = NoErrors
  /\ loginSuccess /\ refreshToken /\ accessToken # 0

\* ===================================================================
\* The participant id of the meeting screen (getParticipantId)
\* ===================================================================

\* values of the id, userId and email fields of the stored profile; 0 stands
\* for a field that is absent or falsy
ProfileIds == 0..2
MeetingIds == 1..2

\* what localStorage 'userProfile' may hold: nothing, text that JSON.parse
\* rejects, or an object with some of the three fields
Profiles ==
  {NoProfile,
   [stored |-> TRUE, parses |-> FALSE, id |-> 0, userId |-> 0, email |-> 0]}
  \cup [stored : {TRUE}, parses : {TRUE},
        id : ProfileIds, userId : ProfileIds, email : ProfileIds]

\* profile.id || profile.userId || profile.email (line 1049); 0 when the
\* profile is missing, does not parse, or has none of them
ProfileUserId(profile) ==
  IF ~profile.stored \/ ~profile.parses THEN 0
  ELSE IF profile.id # 0 THEN profile.id
  ELSE IF profile.userId # 0 THEN profile.userId
  ELSE profile.email

\* `user-${userId}-meeting-${meetingId}` (line 1058)
UserParticipantId(userId, mid) == << "user", userId, "meeting", mid >>

\* (mutant) the temporary id generated on every call and never kept
getParticipantId_NotCached(profile, mid, temp, uuid) ==
  IF ProfileUserId(profile) # 0
  THEN [ret |-> UserParticipantId(ProfileUserId(profile), mid), temp |-> temp]
  ELSE [ret |-> << "temp", uuid >>, temp |-> 0]
\* (mutant) the id kept in the tab's storage preferred to the profile's
getParticipantId_TabIdFirst(profile, mid, temp, uuid) ==
  IF temp # 0 THEN [ret |-> << "temp", temp >>, temp |-> temp]
  ELSE IF ProfileUserId(profile) # 0
  THEN [ret |-> UserParticipantId(ProfileUserId(profile), mid), temp |-> temp]
  ELSE [ret |-> << "temp", uuid >>, temp |-> uuid]
\* getParticipantId, lines 1041-1068: the value returned and what
\* sessionStorage 'tempParticipantId' holds afterwards; uuid is what
\* crypto.randomUUID() would give
getParticipantId(profile, mid, temp, uuid) ==
  LET userId == ProfileUserId(profile)
      stored == IF temp = 0 THEN uuid ELSE temp
  IN IF userId # 0
     THEN [ret |-> UserParticipantId(userId, mid), temp |-> temp]
     ELSE [ret |-> << "temp", stored >>, temp |-> stored]

\* the call reaches crypto.randomUUID() (lines 1057-1062)
NeedsUuid(profile, temp) == ProfileUserId(profile) = 0 /\ temp = 0

\* a render of the started meeting calls getParticipantId (line 1123);
\* crypto.randomUUID() gives a value it has not given before
GetParticipantId ==
  /\ pidCalls < MaxCalls
  /\ \E uuid \in IF NeedsUuid(userProfile, tempParticipantId)
                  THEN (1..MaxUuid) \ issued ELSE {0} :
       LET r == getParticipantId(userProfile, meetingId, tempParticipantId, uuid)
       IN /\ participantId' = r.ret
          /\ tempParticipantId' = r.temp
          /\ issued' = IF NeedsUuid(userProfile, tempParticipantId)
                       THEN issued \cup {uuid} ELSE issued
  /\ pidCalls' = pidCalls + 1
  /\ UNCHANGED << userProfile, meetingId, loginVars, meetingVars,
                  accessToken, refreshToken >>

\* the page is opened in another tab: sessionStorage starts empty there,
\* localStorage is shared
OpenInNewTab ==
  /\ tempParticipantId # 0
  /\ tempParticipantId' = 0
  /\ UNCHANGED << userProfile, meetingId, participantId, pidCalls, issued,
                  loginVars, meetingVars, accessToken, refreshToken >>

InitPid ==
  /\ userProfile \in Profiles
  /\ meetingId \in MeetingIds
  /\ tempParticipantId \in 0..(MaxUuid - 1)
  /\ issued = {tempParticipantId} \ {0}
  /\ participantId = <<>> /\ pidCalls = 0
  /\ NoMeeting /\ NoLogin
  /\ accessToken = 0 /\ refreshToken = FALSE

NextPid ==
  \/ GetParticipantId
  \/ OpenInNewTab

PidSpec == InitPid /\ [][NextPid]_vars

\* ------------------------------------------------------------------ C20
\* C20: with a stored profile that has an id U and with meeting id M, every
\* call of getParticipantId returns the id made of U and M, whatever the
\* tab's storage holds and however many calls came before, and leaves the
\* tab's storage alone.
C20_StableParticipantId ==
  [][pidCalls' # pidCalls
     /\ userProfile.stored /\ userProfile.parses /\ userProfile.id # 0 =>
       /\ participantId' = UserParticipantId(userProfile.id, meetingId)
       /\ tempParticipantId' = tempParticipantId
    ]_vars

\* a later call, made while the tab's storage holds an id and the profile
\* has a different userId as well, returned the id made of U and M
C20_Witness ==
  /\ pidCalls >= 2 /\ tempParticipantId # 0
  /\ userProfile.id # 0 /\ userProfile.userId \notin {0, userProfile.id}
  /\ participantId = UserParticipantId(userProfile.id, meetingId)

\* ------------------------------------------------------------------ C21
\* C21: with no user id to be had from the stored profile, a call of
\* getParticipantId made while the tab's storage holds a temporary id
\* returns that id and keeps it, so every call of one tab session returns
\* the same id; a call made with the tab's storage empty (a new tab session)
\* generates an id, keeps it in the tab's storage and returns it, and that
\* id differs from the one returned before and from every id generated
\* before.
C21_TemporaryIdPerTab ==
  [][pidCalls' # pidCalls /\ ProfileUserId(userProfile) = 0 =>
       /\ tempParticipantId' # 0
       /\ participantId' = << "temp", tempParticipantId' >>
       /\ tempParticipantId # 0 => tempParticipantId' = tempParticipantId
       /\ tempParticipantId = 0 =>
            /\ participantId' # participantId
            /\ tempParticipantId' \notin issued
    ]_vars

\* no profile is stored; an earlier tab session had its id, and in the
\* present one a second call has returned this session's other id
C21_Witness ==
  /\ ~userProfile.stored
  /\ pidCalls >= 3 /\ Cardinality(issued) >= 2
  /\ participantId = << "temp", tempParticipantId >>

\* ------------------------------------------------------------------ C22
\* C22: a retried GET of a status read is issued only in the step in which
\* the token refresh of that read comes back, after the refresh has written
\* the new access token to localStorage; the retried GET carries the token
\* just written, not the one the first GET carried.
C22_RetryCarriesRefreshedToken ==
  [][\A t \in TaskIds :
       tasks'[t] # tasks[t] /\ tasks'[t].pc = "get" /\ tasks'[t].isRetry =>
         /\ tasks[t].pc = "refresh" /\ ~tasks[t].isRetry
         /\ RefreshResponds(t, "ok")
         /\ accessToken' # accessToken
         /\ tasks'[t].tok = accessToken'
         /\ tasks'[t].tok # tasks[t].tok
    ]_vars

\* a retried GET is on its way with the refreshed token
C22_Witness ==
  \E t \in TaskIds :
    /\ tasks[t].pc = "get" /\ tasks[t].isRetry /\ tasks[t].refreshes = 1
    /\ tasks[t].tok = accessToken /\ accessToken = 2

\* ------------------------------------------------------------------ C23
\* the stored user has the consultant role (lines 650-673)
HasConsultantRole == userData.present /\ userData.consultant

\* C23: for a user without the consultant role no status read and no
\* mutation is ever outstanding, no prompt is open and no prompt is on its
\* timer; the start intent with a non-blank name joins in the same step,
\* and the end intent leaves in the same step.
C23_ParticipantNeverReadsOrPrompts ==
  /\ [](~HasConsultantRole =>
          /\ ~isConsultant
          /\ \A t \in TaskIds : tasks[t].kind \in {"idle", "init"}
          /\ ~openStartDialog /\ ~openEndDialog /\ timers = 0)
  /\ [][~HasConsultantRole =>
          /\ OnClickStartMeeting /\ Trim(participantName) # <<>> =>
               /\ isMeetingStarted' /\ ~loading' /\ error' = ""
               /\ tasks' = tasks
          /\ HandleShowEndDialog =>
               /\ HasLeft /\ ~openEndDialog'
               /\ tasks' = tasks
       ]_vars

\* a user without the role has joined and has just left through the end
\* intent
C23_Witness ==
  /\ ~HasConsultantRole /\ mounted
  /\ navigated /\ leaveCalls = 1 /\ ~isMeetingStarted /\ meetingRef = "null"
  /\ participantName # <<>>

\* ------------------------------------------------------------------ C24
\* this step ends a flush that had sent the queued payload and awaited the
\* answer
AwaitedFlushEnds ==
  \E t \in LoginIds : logins[t].pc = "survey" /\ logins'[t] = IdleLogin

\* C24: in the step in which handlePendingSurveySubmission returns, the
\* queued payload is gone from storage whatever it was and whatever became
\* of it; a result record is written exactly when there was a payload
\* (success only for a payload the server accepted), and the handler goes on
\* to its redirect in that very step, after a failed flush as well.
C24_FlushClearsQueueAndNeverAborts ==
  [][Has(effects', "flushEnd") =>
       /\ pendingSurveySubmission' = "none"
       /\ IF AwaitedFlushEnds
          THEN surveySubmissionResult' \in {"ok", "fail"}
          ELSE IF pendingSurveySubmission # "none"
          THEN surveySubmissionResult' = "fail"
          ELSE surveySubmissionResult' = surveySubmissionResult
       /\ Before(effects', "flushEnd", "redirect")
       /\ href' # ""
    ]_vars

\* a login has just succeeded with a queued payload that could not be sent:
\* the failure is recorded, the queue is empty and the redirect was made
C24_Witness ==
  /\ Has(effects, "flushStart") /\ ~Has(effects, "surveyCall")
  /\ Has(effects, "redirect")
  /\ surveySubmissionResult = "fail" /\ pendingSurveySubmission = "none"
  /\ href # ""

\* ------------------------------------------------------------------ C25
\* this step calls checkAppointmentStatus from the start path
StartPathReadBegins ==
  \/ isConsultant /\ Trim(participantName) # <<>> /\ OnClickStartMeeting
  \/ HasUserId(userData) /\ HandleConfirmStartMeeting

\* C25: a status read begun with no stored user id or with no stored access
\* token is over in the step that begins it: its result is UNKNOWN, and
\* neither a GET nor a refresh was made for it.
C25_NoIdOrTokenNoRequest ==
  [][(~HasUserId(userData) \/ accessToken = 0) /\ StartPathReadBegins =>
       /\ readDone' = [resp |-> "-", isRetry |-> FALSE, refresh |-> "-",
                       result |-> UNKNOWN]
       /\ \A t \in TaskIds : tasks'[t] = tasks[t] \/ ~Reading(t)'
       /\ \A t \in TaskIds : tasks'[t].gets = 0 \/ tasks'[t] = tasks[t]
    ]_vars

\* a consultant with a user id but no access token has clicked start: the
\* read gave UNKNOWN at once, nothing is on the network and the handler
\* has gone on with that status
C25_Witness ==
  /\ HasUserId(userData) /\ accessToken = 0
  /\ readDone.result = UNKNOWN /\ readDone.resp = "-"
  /\ \A t \in TaskIds : tasks[t] = IdleTask
  /\ isMeetingStarted /\ ~loading /\ mounted

\* ------------------------------------------------------------------ C26
\* the notices of a failed login
FailureNotices == {"connectivityNotice", "credentialsNotice", "googleNotice"}

\* C26: the step in which a login request fails, on either path, raises its
\* notice and ends the handler, and leaves alone the login-success flag, the
\* queued survey payload and its result record, the stored redirect target
\* and the location: no flag, no flush, no redirect.
C26_FailedLoginFrame ==
  [][\A t \in LoginIds :
       /\ logins[t].pc = "login" /\ logins'[t] = IdleLogin
       /\ \E tok \in 1..MaxToken :
            \/ \E r \in ErrorNames : LoginResponds(t, r, tok)
            \/ GoogleLoginResponds(t, "fail", tok)
       =>
         /\ Len(effects') = 1 /\ effects'[1] \in FailureNotices
         /\ effects'[1] = "googleNotice" <=> logins[t].kind = "google"
         /\ UNCHANGED << loginSuccess, pendingSurveySubmission,
                         surveySubmissionResult, redirectAfterLogin, href >>
    ]_vars

\* a Google login has just failed with a survey queued and a redirect target
\* stored: both are still there, no flag, no redirect
C26_Witness ==
  /\ effects = <<"googleNotice">>
  /\ ~loginSuccess /\ href = ""
  /\ pendingSurveySubmission = "full" /\ redirectAfterLogin = "/saved"
  /\ surveySubmissionResult = "none"

\* ------------------------------------------------------------------ C27
\* C27: the start intent with a name that is empty or all blanks sets the
\* error message and does nothing else: no status read, no request, no
\* prompt opened or put on its timer, isMeetingStarted still false, loading
\* as it was.
C27_BlankNameDoesNotJoin ==
  [][Trim(participantName) = <<>> /\ OnClickStartMeeting =>
       /\ error' = "blankName"
       /\ ~isMeetingStarted'
       /\ tasks' = tasks /\ timers' = timers
       /\ ~openStartDialog' /\ loading' = loading
       /\ alert' = "none"
    ]_vars

\* a consultant has clicked start with a name of blanks only
C27_Witness ==
  /\ mounted /\ isConsultant
  /\ participantName = <<" ">> /\ error = "blankName"
  /\ ~isMeetingStarted /\ timers = 0
  /\ \A t \in TaskIds : tasks[t] = IdleTask

\* ===================================================================
\* The custom streams and the effect of lines 615-641
\* ===================================================================
\* setCustomAudioStream and setCustomVideoStream are handed to JoiningScreen
\* (lines 1153-1154), which acquires its media asynchronously: a stream asked
\* for on the joining screen may be handed over after the start intent has
\* replaced that screen by the meeting.  The setters are those of
\* VideoMeeting, which is still mounted, so the state changes and the effect
\* of lines 615-641 is re-run, cleanup first.
CustomAudioStreamArrivesLate ==
  /\ MeetingVisible /\ ~navigated
  /\ FreshStream <= MaxStreams
  /\ Become([effectCleanup(W0, customAudioStream, customVideoStream)
               EXCEPT !.customAudioStream = FreshStream])

CustomVideoStreamArrivesLate ==
  /\ MeetingVisible /\ ~navigated
  /\ FreshStream <= MaxStreams
  /\ Become([effectCleanup(W0, customAudioStream, customVideoStream)
               EXCEPT !.customVideoStream = FreshStream])

NextStream ==
  \/ Next
  \/ CustomAudioStreamArrivesLate
  \/ CustomVideoStreamArrivesLate

StreamSpec == Init /\ [][NextStream]_vars

\* ------------------------------------------------------------------ C28
\* C28 as stated: a step that changes the custom audio or video stream and
\* leaves the component mounted does not call leave() on the meeting handle.
C28_AsStated ==
  [][(customAudioStream' # customAudioStream
      \/ customVideoStream' # customVideoStream) /\ mounted'
       => leaveCalls' = 0
    ]_vars

\* ------------------------------------------------------------------ C29
\* C29 as stated: while the meeting screen is mounted and none of its
\* handlers is awaiting anything, loading is false; in particular the
\* spinner is not what is shown once isMeetingStarted is false again.
C29_AsStated ==
  mounted /\ (\A t \in TaskIds : tasks[t].kind = "idle") =>
    ~loading /\ ~SpinnerVisible

\* ------------------------------------------------------------------ C30
\* the PUT .../start requests on their way
StartsInFlight == {t \in TaskIds : tasks[t].pc = "putStart"}

\* C30 as stated: the start prompt is never open while the meeting is
\* started, and never more than one start mutation is on its way.
C30_AsStated ==
  /\ ~(mounted /\ openStartDialog /\ isMeetingStarted)
  /\ Cardinality(StartsInFlight) <= 1

\* ------------------------------------------------------------------ C31
\* C31 as stated: after a start intent with a blank name has set its error,
\* the joining screen is still what is shown, so that a name can be entered
\* and the start intent repeated.
C31_AsStated ==
  [][Trim(participantName) = <<>> /\ OnClickStartMeeting => JoiningVisible'
    ]_vars

\* ------------------------------------------------------------------ C32
\* the login screen opened with no redirect target and no tokens stored:
\* neither has a part in whether a handler ends or in isLoading
InitLoginFlow ==
  /\ LoginAtRest
  /\ returnUrl = "" /\ redirectAfterLogin = ""
  /\ pendingSurveySubmission \in PendingSurveys
  /\ accessToken = 0 /\ refreshToken = FALSE
  /\ NoMeeting /\ NoPid

\* login(), axios.post and submitSurveyResult settle: every request of a
\* login handler is answered in the end
FairLoginSpec ==
  /\ InitLoginFlow /\ [][NextLogin]_vars
  /\ \A t \in LoginIds :
       /\ WF_vars(\E r \in {"ok"} \cup ErrorNames, tok \in 1..MaxToken :
                    LoginResponds(t, r, tok))
       /\ WF_vars(\E r \in {"ok", "fail"}, tok \in 1..MaxToken :
                    GoogleLoginResponds(t, r, tok))
       /\ WF_vars(\E ok \in BOOLEAN : SurveyResponds(t, ok))

\* C32: every login handler, form or Google, comes to its end, and the step
\* that ends it leaves isLoading false whatever the outcome was; a form
\* submission is handled only while isLoading is false.
C32_LoginEndsNotLoading ==
  /\ \A t \in LoginIds : logins[t].kind # "idle" ~> logins[t].kind = "idle"
  /\ [][\A t \in LoginIds :
          logins[t].kind # "idle" /\ logins'[t].kind = "idle" => ~isLoading'
       ]_vars
  /\ [][Has(effects', "loginCall") \/ Has(effects', "blocked") => ~isLoading
       ]_vars

\* a form login has just ended with a failure and the button is enabled
\* again, the fields still filled in
C32_Witness ==
  /\ effects = <<"credentialsNotice">>
  /\ ~isLoading /\ href = ""
  /\ username = <<"u">> /\ password = <<"p">>
  /\ \A t \in LoginIds : logins[t] = IdleLogin

TypeOK ==
  /\ participantName \in NameInputs
  /\ timers \in 0..MaxTimers
  /\ accessToken \in 0..MaxToken
  /\ \A t \in TaskIds : tasks[t].gets <= 2 /\ tasks[t].refreshes <= 1

====
